---- MODULE Spec2Model ----
(***************************************************************************)
(* Model of Rsat.py: a two-stage batch script.                             *)
(*   Stage 1 (module level, lines 8-42) cleans a raw survey export and     *)
(*   writes Long_final.csv.                                                *)
(*   Stage 2 (process_responses, lines 67-124, called on line 127) joins   *)
(*   the cleaned rows with Passages.csv and writes rsat2_scored.csv.       *)
(*                                                                         *)
(* A Python str is a sequence of one-character strings.  A float ratio is  *)
(* the exact rational <<numerator, denominator>> in lowest terms.          *)
(***************************************************************************)
EXTENDS Integers, Sequences, FiniteSets, TLC

VARIABLES
    pc,             \* position of the script
    raw,            \* the table pd.read_csv returns: [columns, data]
    astypeKeepsNA,  \* whether Series.astype(str) keeps a missing cell missing
    df,             \* the DataFrame global: [columns, index, data]
    error,          \* the uncaught exception, or NoError
    files,          \* file name -> [exists, rows]: the data rows of the file
    console,        \* what print() has emitted, in order
    args,           \* the arguments of process_responses
    passages,       \* the passages dict of process_responses
    pf_i,           \* rows of the passages file the reader has consumed
    rf_i,           \* rows of the responses file the reader has consumed
    call,           \* arguments of a direct rsat_score call
    ret             \* what the call and its caller computed

vars == <<pc, raw, astypeKeepsNA, df, error, files, console, args, passages,
          pf_i, rf_i, call, ret>>

-----------------------------------------------------------------------------
(* Bounds of the model *)

MaxSentences == 2
MaxRawRows == 2
MaxPassageRows == 2
MaxResponseRows == 2

-----------------------------------------------------------------------------
(* Python values *)

NaN == <<"NaN">>            \* pandas missing value
None == <<"None">>          \* Python None
NoError == [type |-> "none"]
NoValue == <<"no value">>   \* a variable that is not bound yet

Min(S) == CHOOSE x \in S : \A y \in S : x <= y
Max(S) == CHOOSE x \in S : \A y \in S : x >= y
Range(s) == {s[i] : i \in DOMAIN s}

\* a file on disk, by its data rows; a file that does not exist
File(rows) == [exists |-> TRUE, rows |-> rows]
Absent == [exists |-> FALSE, rows |-> <<>>]

Whitespace == {" ", "\t", "\n", "\r"}
Digits == {"0", "1", "2", "3", "4", "5", "6", "7", "8", "9"}
UpperCase == <<"A", "B", "C", "D", "E", "F", "G", "H", "I", "J", "K", "L", "M",
               "N", "O", "P", "Q", "R", "S", "T", "U", "V", "W", "X", "Y", "Z">>
LowerCase == <<"a", "b", "c", "d", "e", "f", "g", "h", "i", "j", "k", "l", "m",
               "n", "o", "p", "q", "r", "s", "t", "u", "v", "w", "x", "y", "z">>

\* the regex class \w
IsWordChar(c) == c \in Range(UpperCase) \cup Range(LowerCase) \cup Digits \cup {"_"}

lower_char(c) ==
    IF c \in Range(UpperCase)
    THEN LowerCase[CHOOSE i \in DOMAIN UpperCase : UpperCase[i] = c]
    ELSE c

upper_char(c) ==
    IF c \in Range(LowerCase)
    THEN UpperCase[CHOOSE i \in DOMAIN LowerCase : LowerCase[i] = c]
    ELSE c

\* str.lower, str.upper, str.strip
lower(s) == [i \in DOMAIN s |-> lower_char(s[i])]
upper(s) == [i \in DOMAIN s |-> upper_char(s[i])]
strip(s) ==
    LET keep == {i \in DOMAIN s : s[i] \notin Whitespace}
    IN  IF keep = {} THEN <<>> ELSE SubSeq(s, Min(keep), Max(keep))

\* the Python idiom (x or ""): None and "" are both falsy
OrEmpty(x) == IF x = None \/ x = <<>> THEN <<>> ELSE x

\* re.split(pattern, s) given the pattern's matches in s as a set of
\* intervals <<first, last>>, non-overlapping: the pieces between the matches
ReSplit(s, matches) ==
    LET n == Cardinality(matches)
        m(k) == CHOOSE x \in matches :
                    Cardinality({y \in matches : y[1] < x[1]}) = k - 1
        from(k) == IF k = 1 THEN 1 ELSE m(k - 1)[2] + 1
        to(k) == IF k = n + 1 THEN Len(s) ELSE m(k)[1] - 1
    IN  [k \in 1..(n + 1) |-> SubSeq(s, from(k), to(k))]

\* the matches of \W+ in s: the maximal runs of non-word characters
NonWordRuns(s) ==
    {<<i, j>> \in (DOMAIN s) \X (DOMAIN s) :
        /\ i <= j
        /\ \A k \in i..j : ~IsWordChar(s[k])
        /\ (i = 1 \/ IsWordChar(s[i - 1]))
        /\ (j = Len(s) \/ IsWordChar(s[j + 1]))}

\* the matches of [.!?] in s: every single such character
SentenceEnds(s) == {<<i, i>> : i \in {k \in DOMAIN s : s[k] \in {".", "!", "?"}}}

-----------------------------------------------------------------------------
(* Helpers of Stage 2 *)

tokenize(text) ==
    LET t == lower(OrEmpty(text))
        words == ReSplit(t, NonWordRuns(t))
    IN  {words[i] : i \in {k \in DOMAIN words : words[k] # <<>>}}

split_sentences(text) ==
    LET t == OrEmpty(text)
        sentences == ReSplit(t, SentenceEnds(t))
        kept == SelectSeq(sentences, LAMBDA s : strip(s) # <<>>)
    IN  [i \in DOMAIN kept |-> tokenize(kept[i])]

RECURSIVE GCD(_, _)
GCD(a, b) == IF b = 0 THEN a ELSE GCD(b, a % b)

\* Python's n / d for ints, d > 0: the ratio in lowest terms
TrueDiv(n, d) == <<n \div GCD(n, d), d \div GCD(n, d)>>
Zero == <<0, 1>>   \* the literal 0.0

\* rsat_score with paraphrasing taken over the response instead of the passage
rsat_score_para_mut(response_words, passage_sentences) ==
    LET all_passage_words ==
            UNION {passage_sentences[i] : i \in DOMAIN passage_sentences}
        overlap == Cardinality(response_words \cap all_passage_words)
    IN  [paraphrasing |-> IF response_words # {}
                          THEN TrueDiv(overlap, Cardinality(response_words))
                          ELSE Zero,
         elaboration |-> IF all_passage_words # {}
                         THEN TrueDiv(Cardinality(response_words \ all_passage_words),
                                      Cardinality(all_passage_words))
                         ELSE Zero,
         effort |-> Cardinality(response_words),
         total_words |-> Cardinality(all_passage_words)]

\* rsat_score with elaboration taken as a share of the response
rsat_score_share_mut(response_words, passage_sentences) ==
    LET all_passage_words ==
            UNION {passage_sentences[i] : i \in DOMAIN passage_sentences}
        overlap == Cardinality(response_words \cap all_passage_words)
    IN  [paraphrasing |-> IF all_passage_words # {}
                          THEN TrueDiv(overlap, Cardinality(all_passage_words))
                          ELSE Zero,
         elaboration |-> IF all_passage_words # {} /\ response_words # {}
                         THEN TrueDiv(Cardinality(response_words \ all_passage_words),
                                      Cardinality(response_words))
                         ELSE Zero,
         effort |-> Cardinality(response_words),
         total_words |-> Cardinality(all_passage_words)]

\* rsat_score with elaboration counting every response token
rsat_score_all_mut(response_words, passage_sentences) ==
    LET all_passage_words ==
            UNION {passage_sentences[i] : i \in DOMAIN passage_sentences}
        overlap == Cardinality(response_words \cap all_passage_words)
    IN  [paraphrasing |-> IF all_passage_words # {}
                          THEN TrueDiv(overlap, Cardinality(all_passage_words))
                          ELSE Zero,
         elaboration |-> IF all_passage_words # {}
                         THEN TrueDiv(Cardinality(response_words),
                                      Cardinality(all_passage_words))
                         ELSE Zero,
         effort |-> Cardinality(response_words),
         total_words |-> Cardinality(all_passage_words)]

rsat_score(response_words, passage_sentences) ==
    LET all_passage_words ==
            UNION {passage_sentences[i] : i \in DOMAIN passage_sentences}
        overlap == Cardinality(response_words \cap all_passage_words)
    IN  [paraphrasing |-> IF all_passage_words # {}
                          THEN TrueDiv(overlap, Cardinality(all_passage_words))
                          ELSE Zero,
         elaboration |-> IF all_passage_words # {}
                         THEN TrueDiv(Cardinality(response_words \ all_passage_words),
                                      Cardinality(all_passage_words))
                         ELSE Zero,
         effort |-> Cardinality(response_words),
         total_words |-> Cardinality(all_passage_words)]

\* line 113, in the caller
total_effort_of(effort, total_words) ==
    IF total_words # 0 THEN TrueDiv(effort, total_words) ELSE Zero

\* round(x, 3), as a whole number of thousandths (ties go to the even one)
round3(x) ==
    LET n == 1000 * x[1]
        q == n \div x[2]
        r == n % x[2]
    IN  IF 2 * r > x[2] \/ (2 * r = x[2] /\ q % 2 = 1) THEN q + 1 ELSE q

-----------------------------------------------------------------------------
(* Direct calls of rsat_score, as process_responses makes them on lines    *)
(* 112-113, over bounded token sets                                        *)

Words == {"the", "cat", "on", "mat"}

ScenarioSentences == <<{"the", "cat", "sat"}, {"the", "cat", "ran"}>>
ScenarioResponse == {"the", "cat", "sat", "on", "mat"}

SentenceSeqs == UNION {[1..n -> SUBSET Words] : n \in 0..MaxSentences}

ScoreCalls ==
    {[response_words |-> r, passage_sentences |-> s] :
        r \in SUBSET Words, s \in SentenceSeqs}
    \cup {[response_words |-> r, passage_sentences |-> ScenarioSentences] :
            r \in {ScenarioResponse, {"on", "mat"}, {"the", "ran"}}}

InitScore ==
    /\ pc = "score"
    /\ call \in ScoreCalls
    /\ ret = NoValue
    /\ raw = NoValue /\ astypeKeepsNA = FALSE /\ df = NoValue
    /\ error = NoError /\ files = NoValue /\ console = <<>>
    /\ args = NoValue /\ passages = NoValue /\ pf_i = 0 /\ rf_i = 0

\* lines 112-113
Score ==
    /\ pc = "score"
    /\ LET s == rsat_score(call.response_words, call.passage_sentences)
       IN  ret' = [paraphrasing |-> s.paraphrasing,
                   elaboration |-> s.elaboration,
                   effort |-> s.effort,
                   total_words |-> s.total_words,
                   total_effort |-> total_effort_of(s.effort, s.total_words)]
    /\ pc' = "scored"
    /\ UNCHANGED <<raw, astypeKeepsNA, df, error, files, console, args, passages,
                   pf_i, rf_i, call>>

NextScore == Score

SpecScore == InitScore /\ [][NextScore]_vars

-----------------------------------------------------------------------------
(* Stage 1: the module-level statements of lines 5-42                      *)
(* A column name is kept as one unit between the blanks around it, so a    *)
(* trimmed name is a sequence of length one.                               *)

input_file == "final_reading(in).csv"
output_file == "Long_final.csv"

wanted == << <<"Participant Private ID">>, <<"Article_ID">>, <<"Question_ID">>,
             <<"Summary_Text">> >>

\* a check that reports the first missing column only
MissingColumns_first_mut(columns) ==
    LET all == SelectSeq(wanted, LAMBDA c : c \notin Range(columns))
    IN  IF all = <<>> THEN all ELSE <<Head(all)>>

\* line 16
MissingColumns(columns) == SelectSeq(wanted, LAMBDA c : c \notin Range(columns))

\* the position of a column in the frame (the first of that name)
ColumnAt(columns, name) == Min({i \in DOMAIN columns : columns[i] = name})
\* df[name] of one row
Cell(frame, r, name) == frame.data[r][ColumnAt(frame.columns, name)]

\* Series.astype(str) on one cell: text stays; a missing cell becomes the
\* text "nan", or stays missing, depending on the pandas release
AsStr(x) == IF x # NaN THEN x ELSE IF astypeKeepsNA THEN NaN ELSE <<"n", "a", "n">>
\* the .str accessor passes a missing cell through
StrStrip(x) == IF x = NaN THEN NaN ELSE strip(x)
StrUpper(x) == IF x = NaN THEN NaN ELSE upper(x)

\* Series.str.extract(r"(Q\d+)", flags) on one cell: the leftmost match,
\* with as many digits as follow; missing when there is none
StrExtractQ(x, ignorecase) ==
    IF x = NaN THEN NaN
    ELSE LET isQ(c) == c = "Q" \/ (ignorecase /\ c = "q")
             starts == {i \in 1..(Len(x) - 1) : isQ(x[i]) /\ x[i + 1] \in Digits}
         IN  IF starts = {} THEN NaN
             ELSE LET i == Min(starts)
                      j == Max({k \in (i + 1)..Len(x) :
                                   \A d \in (i + 1)..k : x[d] \in Digits})
                  IN  SubSeq(x, i, j)

\* lines 30-34 on one cell: no flags are passed, the match is case-sensitive
NormalizeQuestionId(x) == StrUpper(StrExtractQ(x, FALSE))

\* lines 37-38 on one row of the four-column frame
KeepRow(row) ==
    /\ row[1] # NaN /\ row[3] # NaN /\ row[4] # NaN
    /\ row[1] # <<>> /\ row[3] # <<>> /\ row[4] # <<>>

\* DataFrame.to_csv(index=False) read back by csv.DictReader: a missing cell
\* is written as the empty field
ToCsv(frame) ==
    [r \in DOMAIN frame.data |->
        [name \in {frame.columns[i][1] : i \in DOMAIN frame.columns} |->
            LET x == Cell(frame, r, <<name>>) IN IF x = NaN THEN <<>> ELSE x]]

\* lines 8-18: read the export, trim the header, check the columns
CheckColumns ==
    /\ pc = "start"
    /\ LET columns == [i \in DOMAIN raw.columns |-> strip(raw.columns[i])]
           missing == MissingColumns(columns)
       IN  /\ df' = [columns |-> columns,
                     index |-> [r \in DOMAIN raw.data |-> r - 1],
                     data |-> raw.data]
           /\ IF missing # <<>>
              THEN /\ error' = [type |-> "KeyError", missing |-> missing,
                                found |-> columns]
                   /\ pc' = "aborted"
              ELSE /\ error' = error
                   /\ pc' = "clean"
    /\ UNCHANGED <<raw, astypeKeepsNA, files, console, args, passages, pf_i, rf_i,
                   call, ret>>

\* lines 21-27
CleanValues ==
    /\ pc = "clean"
    /\ df' = [columns |-> wanted,
              index |-> df.index,
              data |-> [r \in DOMAIN df.data |->
                          [c \in 1..4 |-> StrStrip(AsStr(Cell(df, r, wanted[c])))]]]
    /\ pc' = "normalize"
    /\ UNCHANGED <<raw, astypeKeepsNA, error, files, console, args, passages, pf_i,
                   rf_i, call, ret>>

\* lines 30-34
NormalizeQuestionIds ==
    /\ pc = "normalize"
    /\ df' = [df EXCEPT !.data =
                [r \in DOMAIN df.data |->
                    [df.data[r] EXCEPT ![3] = NormalizeQuestionId(@)]]]
    /\ pc' = "drop"
    /\ UNCHANGED <<raw, astypeKeepsNA, error, files, console, args, passages, pf_i,
                   rf_i, call, ret>>

\* lines 37-38
DropRows ==
    /\ pc = "drop"
    /\ LET kept == SelectSeq([r \in DOMAIN df.data |-> r],
                             LAMBDA r : KeepRow(df.data[r]))
       IN  df' = [df EXCEPT !.index = [i \in DOMAIN kept |-> df.index[kept[i]]],
                            !.data = [i \in DOMAIN kept |-> df.data[kept[i]]]]
    /\ pc' = "save"
    /\ UNCHANGED <<raw, astypeKeepsNA, error, files, console, args, passages, pf_i,
                   rf_i, call, ret>>

\* lines 41-42
Save ==
    /\ pc = "save"
    /\ files' = [files EXCEPT ![output_file] = File(ToCsv(df))]
    /\ console' = Append(console,
                         [kind |-> "saved",
                          shows |-> [output_file |-> output_file,
                                     rows |-> Len(df.data)]])
    /\ pc' = "report"
    /\ UNCHANGED <<raw, astypeKeepsNA, df, error, args, passages, pf_i, rf_i,
                   call, ret>>

\* line 126: runs before the call of line 127, with the global output_file
PrintCompletion ==
    /\ pc = "report"
    /\ console' = Append(console,
                         [kind |-> "completion",
                          shows |-> [output_file |-> output_file]])
    /\ pc' = "call"
    /\ UNCHANGED <<raw, astypeKeepsNA, df, error, files, args, passages, pf_i,
                   rf_i, call, ret>>

-----------------------------------------------------------------------------
(* Stage 2: process_responses                                              *)
(* A csv.DictReader row is a function from column names to cells; a cell   *)
(* the reader could not fill is None.                                      *)

Get(row, name) == IF name \in DOMAIN row THEN row[name] ELSE None

\* the passages dict keeps insertion order: a sequence of [key, value]
HasKey(d, k) == \E i \in DOMAIN d : d[i].key = k
Lookup(d, k) == d[CHOOSE i \in DOMAIN d : d[i].key = k].value
Keys(d) == [i \in DOMAIN d |-> d[i].key]

\* a dict store that keeps the first value of a key (setdefault)
StorePassage_first_mut(d, k, v) ==
    IF HasKey(d, k) THEN d ELSE Append(d, [key |-> k, value |-> v])

\* passages[article_id] = passage (line 78)
StorePassage(d, k, v) ==
    IF HasKey(d, k)
    THEN [i \in DOMAIN d |-> IF d[i].key = k THEN [key |-> k, value |-> v] ELSE d[i]]
    ELSE Append(d, [key |-> k, value |-> v])

\* line 75
PassageKey(row) == lower(strip(OrEmpty(Get(row, "Article_ID"))))

\* the key of line 97 without .lower()
ResponseKey_case_mut(row) == strip(OrEmpty(Get(row, "Article_ID")))

\* line 97
ResponseKey(row) == lower(strip(OrEmpty(Get(row, "Article_ID"))))

\* the test of line 101 without the article key
Skippable_key_mut(pid, article_id, response) == pid = <<>> \/ response = <<>>

\* line 101
Skippable(pid, article_id, response) ==
    pid = <<>> \/ article_id = <<>> \/ response = <<>>

\* the message of line 106, by the values the f-string shows
Warning(article_id) == [kind |-> "warning", shows |-> [article_id |-> article_id]]

\* the dict of lines 115-124 as csv.DictWriter writes it (None as "")
ScoredRow(row, pid, qid, response) ==
    LET passage_sentences == split_sentences(Lookup(passages, ResponseKey(row)))
        response_words == tokenize(response)
        s == rsat_score(response_words, passage_sentences)
        total_effort == total_effort_of(s.effort, s.total_words)
    IN  ("Participant Private ID" :> pid)
        @@ ("Article_ID" :> OrEmpty(Get(row, "Article_ID")))
        @@ ("Question_ID" :> qid)
        @@ ("Summary_Text" :> response)
        @@ ("paraphrasing (%)" :> round3(s.paraphrasing))
        @@ ("elaboration (%)" :> round3(s.elaboration))
        @@ ("effort (words)" :> s.effort)
        @@ ("total_effort (%)" :> round3(total_effort))

\* line 127 and line 69
CallProcessResponses ==
    /\ pc = "call"
    /\ args' = [passages_file |-> "Passages.csv",
                responses_file |-> "Long_final.csv",
                output_file |-> "rsat2_scored.csv"]
    /\ passages' = <<>>
    /\ pf_i' = 0
    /\ pc' = "load"
    /\ UNCHANGED <<raw, astypeKeepsNA, df, error, files, console, rf_i, call, ret>>

\* one turn of the loop of lines 73-78
LoadPassageRow ==
    /\ pc = "load"
    /\ pf_i < Len(files[args.passages_file].rows)
    /\ LET row == files[args.passages_file].rows[pf_i + 1]
           article_id == PassageKey(row)
           passage == strip(OrEmpty(Get(row, "Passage")))
       IN  passages' = IF article_id # <<>> /\ passage # <<>>
                       THEN StorePassage(passages, article_id, passage)
                       ELSE passages
    /\ pf_i' = pf_i + 1
    /\ UNCHANGED <<pc, raw, astypeKeepsNA, df, error, files, console, args, rf_i,
                   call, ret>>

\* lines 81-92: report the table, open both files, write the header
OpenOutput ==
    /\ pc = "load"
    /\ pf_i = Len(files[args.passages_file].rows)
    /\ console' = Append(console,
                         [kind |-> "loaded",
                          shows |-> [count |-> Len(passages), keys |-> Keys(passages)]])
    /\ files' = [files EXCEPT ![args.output_file] = File(<<>>)]
    /\ rf_i' = 0
    /\ pc' = "rows"
    /\ UNCHANGED <<raw, astypeKeepsNA, df, error, args, passages, pf_i, call, ret>>

\* one turn of the loop of lines 94-124
ProcessRow ==
    /\ pc = "rows"
    /\ rf_i < Len(files[args.responses_file].rows)
    /\ LET row == files[args.responses_file].rows[rf_i + 1]
           pid == strip(OrEmpty(Get(row, "Participant Private ID")))
           article_id == ResponseKey(row)
           qid == strip(OrEmpty(Get(row, "Question_ID")))
           response == strip(OrEmpty(Get(row, "Summary_Text")))
       IN  IF Skippable(pid, article_id, response)
           THEN UNCHANGED <<files, console>>
           ELSE IF ~HasKey(passages, article_id)
           THEN /\ console' = Append(console, Warning(article_id))
                /\ UNCHANGED files
           ELSE /\ files' = [files EXCEPT ![args.output_file].rows =
                                Append(@, ScoredRow(row, pid, qid, response))]
                /\ UNCHANGED console
    /\ rf_i' = rf_i + 1
    /\ UNCHANGED <<pc, raw, astypeKeepsNA, df, error, args, passages, pf_i, call, ret>>

\* the end of the with block: both files are closed, the function returns
Return ==
    /\ pc = "rows"
    /\ rf_i = Len(files[args.responses_file].rows)
    /\ pc' = "done"
    /\ UNCHANGED <<raw, astypeKeepsNA, df, error, files, console, args, passages,
                   pf_i, rf_i, call, ret>>

-----------------------------------------------------------------------------
(* process_responses on bounded files *)

PassageRow(a, p) == ("Article_ID" :> a) @@ ("Passage" :> p)
ResponseRow(p, a, q, s) ==
    ("Participant Private ID" :> p) @@ ("Article_ID" :> a)
    @@ ("Question_ID" :> q) @@ ("Summary_Text" :> s)

CatText == <<"T", "h", "e", " ", "c", "a", "t", " ", "s", "a", "t", ".", " ",
             "T", "h", "e", " ", "c", "a", "t", " ", "r", "a", "n", "!">>
CatSummary == <<"T", "h", "e", " ", "c", "a", "t", " ", "s", "a", "t", " ",
                "o", "n", " ", "m", "a", "t">>
DogText == <<" ", "D", "o", "g", ".", " ">>

PassageRows ==
    {PassageRow(a, p) :
        a \in {None, <<>>, <<" ", "A", "1", " ">>, <<"a", "1">>, <<"b", "2">>},
        p \in {None, <<" ">>, DogText, CatText}}

ResponseRows ==
    {ResponseRow(p, a, <<" ", "Q", "1">>, s) :
        p \in {<<>>, <<" ", "p", "1">>},
        a \in {None, <<" ", "A", "1", " ">>, <<"b", "2">>},
        s \in {<<" ">>, CatSummary}}
    \cup {ResponseRow(None, <<"a", "1">>, None, <<"D", "o", "g">>),
          ("Participant Private ID" :> <<"p", "2">>) @@ ("Summary_Text" :> <<"?">>)}

SeqsUpTo(S, n) == UNION {[1..k -> S] : k \in 0..n}

FixedPassages == <<PassageRow(<<"a", "1", " ">>, CatText)>>
FixedResponses == <<ResponseRow(<<"p", "1">>, <<"A", "1">>, <<"Q", "1">>, CatSummary)>>

ScorerInputs ==
    {[p |-> p, r |-> FixedResponses] : p \in SeqsUpTo(PassageRows, MaxPassageRows)}
    \cup {[p |-> p, r |-> r] :
            p \in {FixedPassages, <<>>}, r \in SeqsUpTo(ResponseRows, MaxResponseRows)}

InitScorer ==
    /\ pc = "call"
    /\ \E in \in ScorerInputs :
          files = ("Passages.csv" :> File(in.p)) @@ ("Long_final.csv" :> File(in.r))
                  @@ ("rsat2_scored.csv" :> Absent)
    /\ raw = NoValue /\ astypeKeepsNA = FALSE /\ df = NoValue
    /\ error = NoError /\ console = <<>>
    /\ args = NoValue /\ passages = NoValue /\ pf_i = 0 /\ rf_i = 0
    /\ call = NoValue /\ ret = NoValue

NextScorer ==
    \/ CallProcessResponses
    \/ LoadPassageRow
    \/ OpenOutput
    \/ ProcessRow
    \/ Return

SpecScorer == InitScorer /\ [][NextScorer]_vars

-----------------------------------------------------------------------------
(* The whole script on bounded exports *)

\* the table read_csv returns for an export with the columns cols (padded
\* with blanks or not) and the given rows
Export(cols, padded, rows) ==
    [columns |-> [i \in DOMAIN cols |->
                    IF padded THEN <<" ", cols[i], " ">> ELSE <<cols[i]>>],
     data |-> [r \in DOMAIN rows |-> [i \in DOMAIN cols |-> rows[r][cols[i]]]]]

ExportRow(p, a, q, s) ==
    ResponseRow(p, a, q, s) @@ ("Event Index" :> <<"7">>)

Pid1 == <<"p", "1", " ">>
Art1 == <<" ", "A", "1">>
QLower == <<"q", "3", "_", "f", "o", "l", "l", "o", "w", "u", "p">>
QUpper == <<"x", "Q", "1", "2", "_", "y">>
QNone == <<"i", "n", "t", "r", "o">>
Text1 == <<"C", "a", "t", " ", "s", "a", "t", ".">>

\* cells of an export are text or missing (columns of dtype object)
ExportRows ==
    {ExportRow(p, a, q, Text1) :
        p \in {NaN, Pid1}, a \in {NaN, Art1}, q \in {QLower, QUpper}}
    \cup {ExportRow(Pid1, Art1, q, Text1) : q \in {QNone, NaN}}
    \cup {ExportRow(<<" ">>, Art1, QUpper, Text1)}
    \cup {ExportRow(Pid1, Art1, QUpper, s) : s \in {NaN, <<" ">>}}
    \cup {ExportRow(Pid1, <<" ">>, QUpper, Text1)}

AllColumns == <<"Event Index", "Participant Private ID", "Article_ID",
                "Question_ID", "Summary_Text">>
SomeRows == <<ExportRow(Pid1, Art1, QUpper, Text1), ExportRow(NaN, NaN, QLower, Text1)>>

Exports ==
    {Export(AllColumns, FALSE, rows) : rows \in SeqsUpTo(ExportRows, MaxRawRows)}
    \cup {Export(SelectSeq(AllColumns, LAMBDA c : c \in keep), padded, SomeRows) :
            keep \in SUBSET Range(AllColumns), padded \in BOOLEAN}

Init ==
    /\ pc = "start"
    /\ raw \in Exports
    /\ astypeKeepsNA \in BOOLEAN
    /\ df = NoValue
    /\ error = NoError
    /\ files = ("Passages.csv" :> File(FixedPassages)) @@ ("Long_final.csv" :> Absent)
               @@ ("rsat2_scored.csv" :> Absent)
    /\ console = <<>>
    /\ args = NoValue /\ passages = NoValue /\ pf_i = 0 /\ rf_i = 0
    /\ call = NoValue /\ ret = NoValue

Next ==
    \/ CheckColumns
    \/ CleanValues
    \/ NormalizeQuestionIds
    \/ DropRows
    \/ Save
    \/ PrintCompletion
    \/ CallProcessResponses
    \/ LoadPassageRow
    \/ OpenOutput
    \/ ProcessRow
    \/ Return

Spec == Init /\ [][Next]_vars

-----------------------------------------------------------------------------
(* Claims about rsat_score, checked under SpecScore *)

AllPassageWords == UNION Range(call.passage_sentences)
\* the float x equals the ratio n / d
RatioIs(x, n, d) == x[1] * d = n * x[2]

\* C1: rsat_score returns paraphrasing = |R \cap P| / |P|, elaboration =
\* |R \ P| / |P|, effort = |R| and totalWords = |P|, the caller computes
\* total_effort = |R| / |P|, all three ratios are 0.0 when |P| = 0, and the
\* passage {the,cat,sat},{the,cat,ran} with R = {the,cat,sat,on,mat} gives
\* 3/4, 2/4, 5 and 5/4.
C1_ScoreFormulas ==
    pc = "scored" =>
        LET R == call.response_words
            P == AllPassageWords
            nP == Cardinality(P)
        IN  /\ ret.effort = Cardinality(R)
            /\ ret.total_words = nP
            /\ nP = 0 => /\ ret.paraphrasing = Zero
                         /\ ret.elaboration = Zero
                         /\ ret.total_effort = Zero
            /\ nP > 0 => /\ RatioIs(ret.paraphrasing, Cardinality(R \cap P), nP)
                         /\ RatioIs(ret.elaboration, Cardinality(R \ P), nP)
                         /\ RatioIs(ret.total_effort, Cardinality(R), nP)
            /\ (R = ScenarioResponse /\ call.passage_sentences = ScenarioSentences)
                  => /\ RatioIs(ret.paraphrasing, 3, 4)
                     /\ RatioIs(ret.elaboration, 2, 4)
                     /\ ret.effort = 5
                     /\ RatioIs(ret.total_effort, 5, 4)

C1_Witness ==
    /\ pc = "scored"
    /\ call.response_words = ScenarioResponse
    /\ call.passage_sentences = ScenarioSentences
    /\ ret.paraphrasing = <<3, 4>>
    /\ ret.elaboration = <<1, 2>>

\* C2 as stated: whenever the passage is non-empty and the response shares no
\* token with it, paraphrasing = 0.0 and elaboration = 1.0.
C2_DisjointGivesOne ==
    (pc = "scored" /\ AllPassageWords # {}
       /\ call.response_words \cap AllPassageWords = {})
    => (ret.paraphrasing = Zero /\ ret.elaboration = <<1, 1>>)

\* C2 amended: whenever the passage is non-empty and the response shares no
\* token with it, paraphrasing = 0.0 and elaboration = |R| / |P|, the same
\* value as total_effort; it is 1.0 exactly when |R| = |P|.
C2_DisjointGivesEffort ==
    (pc = "scored" /\ AllPassageWords # {}
       /\ call.response_words \cap AllPassageWords = {})
    => /\ ret.paraphrasing = Zero
       /\ RatioIs(ret.elaboration, Cardinality(call.response_words),
                  Cardinality(AllPassageWords))
       /\ ret.elaboration = ret.total_effort
       /\ (ret.elaboration = <<1, 1>>
             <=> Cardinality(call.response_words) = Cardinality(AllPassageWords))

C2_Witness ==
    /\ pc = "scored"
    /\ AllPassageWords # {}
    /\ call.response_words \cap AllPassageWords = {}
    /\ Cardinality(call.response_words) > Cardinality(AllPassageWords)
    /\ ret.elaboration = <<2, 1>>

-----------------------------------------------------------------------------
(* Claims about process_responses, checked under SpecScorer *)

ResponseFile == files["Long_final.csv"].rows
PassageFile == files["Passages.csv"].rows
TableKeys == {passages[i].key : i \in DOMAIN passages}
Field(row, name) == IF name \in DOMAIN row /\ row[name] # None THEN row[name] ELSE <<>>

\* the response row has a participant id, an article key and a text
NonEmptyRow(row) ==
    /\ strip(Field(row, "Participant Private ID")) # <<>>
    /\ lower(strip(Field(row, "Article_ID"))) # <<>>
    /\ strip(Field(row, "Summary_Text")) # <<>>
EligibleRow(row) ==
    NonEmptyRow(row) /\ lower(strip(Field(row, "Article_ID"))) \in TableKeys
UnmatchedRow(row) ==
    NonEmptyRow(row) /\ lower(strip(Field(row, "Article_ID"))) \notin TableKeys

Warnings == SelectSeq(console, LAMBDA m : m.kind = "warning")

UnmatchedSoFar == SelectSeq(SubSeq(ResponseFile, 1, rf_i), UnmatchedRow)

Usable(i) ==
    /\ lower(strip(Field(PassageFile[i], "Article_ID"))) # <<>>
    /\ strip(Field(PassageFile[i], "Passage")) # <<>>
UsableFor(k) ==
    {i \in 1..pf_i : Usable(i) /\ lower(strip(Field(PassageFile[i], "Article_ID"))) = k}
Loaded == SelectSeq(console, LAMBDA m : m.kind = "loaded")

\* C8: the passage table maps each key to the trimmed text of the last
\* lookup row with that trimmed lower-cased key whose key and trimmed text
\* are non-empty; other rows neither add nor overwrite an entry; the count
\* reported is the number of distinct such keys.
C8_LastRowWins ==
    pc \in {"load", "rows", "done"} =>
        /\ TableKeys = {lower(strip(Field(PassageFile[i], "Article_ID"))) :
                            i \in {j \in 1..pf_i : Usable(j)}}
        /\ \A k \in TableKeys :
              Lookup(passages, k) = strip(Field(PassageFile[Max(UsableFor(k))], "Passage"))
        /\ Cardinality(TableKeys) = Len(passages)
        /\ pc \in {"rows", "done"} =>
              /\ pf_i = Len(PassageFile)
              /\ Len(Loaded) = 1
              /\ Loaded[1].shows.count = Cardinality(TableKeys)

\* a key given twice with different texts, the second one kept
C8_Witness ==
    /\ pc = "done"
    /\ Len(PassageFile) = 2
    /\ Usable(1) /\ Usable(2)
    /\ PassageKey(PassageFile[1]) = PassageKey(PassageFile[2])
    /\ PassageFile[1]["Article_ID"] # PassageFile[2]["Article_ID"]
    /\ strip(PassageFile[1]["Passage"]) # strip(PassageFile[2]["Passage"])
    /\ Len(passages) = 1
    /\ passages[1].value = strip(PassageFile[2]["Passage"])

-----------------------------------------------------------------------------
(* Claims about the whole script, checked under Spec *)

Stage1Done == pc \in {"save", "report", "call", "load", "rows", "done"}
HeaderNames == [i \in DOMAIN raw.columns |-> strip(raw.columns[i])]
\* the cell of raw row r under the column of that (trimmed) name
RawCell(r, name) == raw.data[r][ColumnAt(HeaderNames, <<name>>)]
\* raw row r is in the cleaned frame (rows keep their index label)
Kept(r) == (r - 1) \in Range(df.index)
CleanedRow(r) == df.data[CHOOSE i \in DOMAIN df.index : df.index[i] = r - 1]
Present(x) == x # NaN /\ strip(x) # <<>>

\* C3: the question id is the first "Q and digits" found anywhere in the raw
\* value without regard to case, upper-cased: "q3_followup" is kept as "Q3",
\* and a row whose value has no such pattern ("intro") is dropped.
C3_QuestionIdAnyCase ==
    Stage1Done =>
        \A r \in DOMAIN raw.data :
            LET q == RawCell(r, "Question_ID")
                want == StrUpper(StrExtractQ(q, TRUE))
                others == Present(RawCell(r, "Participant Private ID"))
                            /\ Present(RawCell(r, "Summary_Text"))
            IN  /\ Kept(r) => CleanedRow(r)[3] = want
                /\ want = NaN => ~Kept(r)
                /\ (q = QLower /\ others) => (Kept(r) /\ CleanedRow(r)[3] = <<"Q", "3">>)
                /\ q = QNone => ~Kept(r)

\* C4: a row is in the cleaned output exactly if its participant id, its
\* normalized question id and its response text are present and non-empty;
\* a row whose participant id or response text is a missing cell is dropped;
\* the article id never decides.
C4_KeptIffKeyFieldsPresent ==
    Stage1Done =>
        \A r \in DOMAIN raw.data :
            /\ Kept(r) <=> /\ Present(RawCell(r, "Participant Private ID"))
                           /\ NormalizeQuestionId(RawCell(r, "Question_ID")) # NaN
                           /\ Present(RawCell(r, "Summary_Text"))
            /\ (RawCell(r, "Participant Private ID") = NaN
                  \/ RawCell(r, "Summary_Text") = NaN) => ~Kept(r)

RequiredMissing == SelectSeq(wanted, LAMBDA c : c \notin Range(HeaderNames))

\* C5: when a required column is missing from the trimmed header the run
\* aborts with an error listing the missing columns and the columns found;
\* no cleaned table is written, Stage 2 never starts, no scored table is
\* written.
C5_MissingColumnAborts ==
    (pc # "start" /\ RequiredMissing # <<>>) =>
        /\ pc = "aborted"
        /\ error.type = "KeyError"
        /\ error.missing = RequiredMissing
        /\ error.found = HeaderNames
        /\ ~files["Long_final.csv"].exists
        /\ ~files["rsat2_scored.csv"].exists
        /\ console = <<>>

\* two columns are missing from a header whose names carry blanks
C5_Witness ==
    /\ pc = "aborted"
    /\ Len(error.missing) = 2
    /\ Len(error.found) = 3
    /\ \E i \in DOMAIN raw.columns : Len(raw.columns[i]) = 3
    /\ ~files["Long_final.csv"].exists

\* C9: the completion report comes only after Stage 2 has written all of its
\* scored rows, and the location it shows is that of the scored table.
C9_ReportAfterScoring ==
    \A i \in DOMAIN console :
        console[i].kind = "completion" =>
            /\ pc = "done"
            /\ files["rsat2_scored.csv"].exists
            /\ console[i].shows.output_file = "rsat2_scored.csv"

====
